---- MODULE Spec2Model ----
\* A model of the zikuli OpenCV wrapper (src/src/opencv/opencv_wrapper.cpp):
\* the opaque cv::Mat handles, their storage, and the template-matching
\* primitives built on them.  Sample values are integers; a float surface holds
\* integer-valued scores and the two infinities PosInf / NegInf.
EXTENDS Integers, Sequences, FiniteSets, TLC

\* ---------------------------------------------------------------- bounds
MaxMats == 2        \* wrapper addresses the allocator hands out (lifecycle)
MaxRows == 2        \* rows of a buffer the caller creates
MaxCols == 2        \* columns of a buffer the caller creates
SceneRows == 2      \* rows of a scene
SceneCols == 3      \* columns of a scene
FindRows == 1       \* rows of a scene findMatches searches
FindCols == 4       \* columns of a scene findMatches searches
MaxBright == 1      \* bright pixels of a (sparse) scene
MaxN == 2           \* largest match cap given to findMatches

\* ------------------------------------------------------- program constants
INT32_MAX == 2147483647

NULL == 0

ZIKULI_CV_8UC1 == 0
ZIKULI_CV_8UC3 == 16
ZIKULI_CV_8UC4 == 24
ZIKULI_CV_32FC1 == 5

ZIKULI_TM_SQDIFF == 0
ZIKULI_TM_CCORR == 2

Types == {ZIKULI_CV_8UC1, ZIKULI_CV_8UC3, ZIKULI_CV_8UC4, ZIKULI_CV_32FC1}

\* OpenCV's type encoding: depth in the low 3 bits, channels-1 above them.
CV_8U == 0
CV_32F == 5
CV_MAT_DEPTH(type) == type % 8
CV_MAT_CN(type) == (type \div 8) + 1
ElemSize1(type) == IF CV_MAT_DEPTH(type) = CV_32F THEN 4 ELSE 1

\* The double infinities a float surface can hold.
PosInf == 1000000
NegInf == -PosInf

\* ------------------------------------------------------------------ state
VARIABLES
    mats,      \* wrapper address -> the ZikuliMat at it (live or not)
    mem,       \* block -> samples; block 0 is the caller's memory, block a
               \* the storage the mat at address a owns
    deletes,   \* address -> `delete` executions on the object allocated there
    ub,        \* undefined behaviour has been executed (the run ends there)
    last,      \* the last call: its name, arguments and return value
    mm,        \* the caller's ZikuliMinMaxResult out-parameter
    fm         \* the findMatches invocation in progress

vars == <<mats, mem, deletes, ub, last, mm, fm>>

CallerBlk == 0

NoMat == [live |-> FALSE, rows |-> 0, cols |-> 0, type |-> 0, blk |-> 0]

Mat(rows, cols, type, blk) ==
    [live |-> TRUE, rows |-> rows, cols |-> cols, type |-> type, blk |-> blk]

Addrs == DOMAIN mats

\* The samples of the mat at p, row-major, channels interleaved.
MatData(p) == mem[mats[p].blk]

NSamples(rows, cols, type) == rows * cols * CV_MAT_CN(type)

\* Sample k of pixel (r, c) of a continuous rows x cols mat (1-based position).
SampleAt(cols, type, r, c, k) == (r * cols + c) * CV_MAT_CN(type) + k + 1

NoMM == [min_val |-> 0, max_val |-> 0,
         min_loc |-> [x |-> 0, y |-> 0], max_loc |-> [x |-> 0, y |-> 0]]

NoFM == [pc |-> "IDLE", outcome |-> "none"]

\* -------------------------------------------------------------- accessors
zikuli_mat_rows(p) == IF p # NULL THEN mats[p].rows ELSE 0
zikuli_mat_cols(p) == IF p # NULL THEN mats[p].cols ELSE 0

\* ------------------------------------------------------- create / release
\* cv::Mat(rows, cols, type) allocates and does not initialise: the samples
\* are whatever the allocator returned.
GarbageVals == {0, 7}

FreeAddrs == {a \in Addrs : ~mats[a].live}

zikuli_mat_create(rows, cols, type) ==
    /\ ~ub
    /\ \/ /\ (rows < 0 \/ cols < 0 \/ FreeAddrs = {})     \* cv::Mat or new throws
          /\ last' = [op |-> "create", ret |-> NULL,
                      rows |-> rows, cols |-> cols, type |-> type]
          /\ UNCHANGED <<mats, mem, deletes>>
       \/ /\ rows >= 0 /\ cols >= 0
          /\ \E a \in FreeAddrs :
             \E garbage \in [1..NSamples(rows, cols, type) -> GarbageVals] :
                /\ mats' = [mats EXCEPT ![a] = Mat(rows, cols, type, a)]
                /\ mem' = [mem EXCEPT ![a] = garbage]
                /\ deletes' = [deletes EXCEPT ![a] = 0]
                /\ last' = [op |-> "create", ret |-> a,
                            rows |-> rows, cols |-> cols, type |-> type]
    /\ UNCHANGED <<ub, mm>>

\* `delete mat` on a live object destroys it; on a dangling pointer it is a
\* double free: undefined, and the heap it corrupts may hold other mats.
zikuli_mat_release(p) ==
    /\ ~ub
    /\ \/ /\ p = NULL
          /\ UNCHANGED <<mats, mem, deletes, ub>>
       \/ /\ p # NULL /\ mats[p].live
          /\ mats' = [mats EXCEPT ![p] = NoMat]
          /\ mem' = [mem EXCEPT ![p] = <<>>]
          /\ deletes' = [deletes EXCEPT ![p] = @ + 1]
          /\ UNCHANGED ub
       \/ /\ p # NULL /\ ~mats[p].live
          /\ deletes' = [deletes EXCEPT ![p] = @ + 1]
          /\ ub' = TRUE
          /\ \/ UNCHANGED <<mats, mem>>
             \/ \E q \in Addrs :
                   /\ mats[q].live
                   /\ mats' = [mats EXCEPT ![q] = NoMat]
                   /\ mem' = [mem EXCEPT ![q] = <<>>]
    /\ last' = [op |-> "release", mat |-> p]
    /\ UNCHANGED mm

\* ------------------------------------------------------- create with data
\* cv::Mat(rows, cols, type, data, step) is a header over the caller's memory:
\* row r starts step bytes after row r-1 (step 0 is AUTO_STEP, the packed row).
MinStep(cols, type) == cols * CV_MAT_CN(type) * ElemSize1(type)

StepElems(cols, type, step) ==
    (IF step = 0 THEN MinStep(cols, type) ELSE step) \div ElemSize1(type)

\* Mat::clone(): a packed copy of the header's rows.
CloneData(rows, cols, type, data, step) ==
    [i \in 1..NSamples(rows, cols, type) |->
        LET rowLen == cols * CV_MAT_CN(type)
            r == (i - 1) \div rowLen
            off == (i - 1) % rowLen
        IN  data[r * StepElems(cols, type, step) + off + 1]]

\* The ZikuliMat that zikuli_mat_create_with_data leaves at address a.
NoCloneMat(a, rows, cols, type) == Mat(rows, cols, type, CallerBlk)

ClonedMat(a, rows, cols, type) == Mat(rows, cols, type, a)

zikuli_mat_create_with_data(rows, cols, type, step) ==
    /\ ~ub
    /\ \/ /\ (rows < 0 \/ cols < 0 \/ FreeAddrs = {})
          /\ last' = [op |-> "create_with_data", ret |-> NULL]
          /\ UNCHANGED <<mats, mem, deletes>>
       \/ /\ rows >= 0 /\ cols >= 0
          /\ \E a \in FreeAddrs :
                /\ mats' = [mats EXCEPT ![a] = ClonedMat(a, rows, cols, type)]
                /\ mem' = [mem EXCEPT
                             ![a] = CloneData(rows, cols, type, mem[CallerBlk], step)]
                /\ deletes' = [deletes EXCEPT ![a] = 0]
                /\ last' = [op |-> "create_with_data", ret |-> a]
    /\ UNCHANGED <<ub, mm>>

\* The caller writes, or frees, the memory it passed in.
CallerWrite(i, v) ==
    /\ ~ub
    /\ i \in 1..Len(mem[CallerBlk])
    /\ mem' = [mem EXCEPT ![CallerBlk] = [@ EXCEPT ![i] = v]]
    /\ last' = [op |-> "caller_write"]
    /\ UNCHANGED <<mats, deletes, ub, mm>>

CallerFree ==
    /\ ~ub
    /\ mem[CallerBlk] # <<>>
    /\ mem' = [mem EXCEPT ![CallerBlk] = <<>>]
    /\ last' = [op |-> "caller_free"]
    /\ UNCHANGED <<mats, deletes, ub, mm>>

\* ------------------------------------------------------------- set region
\* int32 addition of two positive numbers as the machine does it (it wraps).
Int32Overflows(a, b) == a > 0 /\ b > 0 /\ a > INT32_MAX - b

Int32Add(a, b) ==
    IF Int32Overflows(a, b)
    THEN (a - INT32_MAX - 1) + (b - INT32_MAX - 1)
    ELSE a + b

\* saturate_cast to the mat's depth: uchar clamps, float keeps the value.
Saturate(type, v) ==
    IF CV_MAT_DEPTH(type) = CV_8U
    THEN (IF v < 0 THEN 0 ELSE IF v > 255 THEN 255 ELSE v)
    ELSE v

\* cv::Scalar(value) is (value, 0, 0, 0).
ScalarAt(value, k) == IF k = 0 THEN value ELSE 0

\* Pixel number px (row-major) lies in a row of the ROI: ROI row j starts at
\* pixel (y+j)*cols + x and is width pixels of contiguous memory.
RoiWrites(m, x, y, width, height, px) ==
    \E r \in 0..(m.rows - 1) :
        /\ y <= r /\ r - y < height
        /\ x <= px - r * m.cols
        /\ (px - r * m.cols) - x < width

\* The storage of m after the pixels of the ROI are set to the scalar.
FillRoi(m, data, x, y, width, height, value) ==
    [i \in 1..Len(data) |->
        LET cn == CV_MAT_CN(m.type)
            px == (i - 1) \div cn
            k == (i - 1) % cn
        IN  IF RoiWrites(m, x, y, width, height, px)
            THEN Saturate(m.type, ScalarAt(value, k))
            ELSE data[i]]

\* cv::Rect(x, y, height, width): the two sizes exchanged.
SetToExchanged(m, data, x, y, width, height, value) ==
    FillRoi(m, data, x, y, height, width, value)

\* cv::Rect roi(x, y, width, height); mat(roi).setTo(cv::Scalar(value)).
SetTo(m, data, x, y, width, height, value) ==
    FillRoi(m, data, x, y, width, height, value)

zikuli_mat_set_region(p, x, y, width, height, value) ==
    /\ ~ub
    /\ \/ /\ p = NULL
          /\ last' = [op |-> "set_region", returned |-> TRUE, ret |-> -1]
          /\ UNCHANGED <<mem, ub>>
       \/ /\ p # NULL
          /\ (x < 0 \/ y < 0 \/ width <= 0 \/ height <= 0)
          /\ last' = [op |-> "set_region", returned |-> TRUE, ret |-> -1]
          /\ UNCHANGED <<mem, ub>>
       \/ /\ p # NULL
          /\ ~(x < 0 \/ y < 0 \/ width <= 0 \/ height <= 0)
          /\ (Int32Add(x, width) > mats[p].cols \/ Int32Add(y, height) > mats[p].rows)
          /\ last' = [op |-> "set_region", returned |-> TRUE, ret |-> -1]
          /\ UNCHANGED <<mem, ub>>
       \/ /\ p # NULL
          /\ ~(x < 0 \/ y < 0 \/ width <= 0 \/ height <= 0)
          /\ ~(Int32Add(x, width) > mats[p].cols \/ Int32Add(y, height) > mats[p].rows)
          /\ mem' = [mem EXCEPT ![mats[p].blk] =
                        SetTo(mats[p], @, x, y, width, height, value)]
          /\ IF Int32Overflows(x, width) \/ Int32Overflows(y, height)
             THEN \* the ROI runs past the buffer: the write is out of bounds
                  /\ ub' = TRUE
                  /\ last' = [op |-> "set_region", returned |-> FALSE, ret |-> 0,
                              fault |-> "out-of-bounds write"]
             ELSE /\ UNCHANGED ub
                  /\ last' = [op |-> "set_region", returned |-> TRUE, ret |-> 0]
       \/ /\ p # NULL
          /\ ~(x < 0 \/ y < 0 \/ width <= 0 \/ height <= 0)
          /\ \/ Int32Overflows(x, width)
             \/ Int32Add(x, width) <= mats[p].cols /\ Int32Overflows(y, height)
          \* signed overflow is undefined: a trapping build aborts here
          /\ ub' = TRUE
          /\ last' = [op |-> "set_region", returned |-> FALSE, ret |-> 0,
                      fault |-> "overflow trap"]
          /\ UNCHANGED mem
    /\ UNCHANGED <<mats, deletes, mm>>

\* --------------------------------------------------------- match template
RECURSIVE SumTo(_, _)
\* f[1] + ... + f[n]
SumTo(f, n) == IF n = 0 THEN 0 ELSE f[n] + SumTo(f, n - 1)

\* The score of template T at offset (i, j) = (row, column) of image I, summed
\* over every pixel and channel of the window.
Score(I, idata, T, tdata, method, i, j) ==
    LET cn == CV_MAT_CN(T.type)
        rowLen == T.cols * cn
        w(n) == idata[SampleAt(I.cols, I.type, i + (n - 1) \div rowLen,
                               j + ((n - 1) % rowLen) \div cn, (n - 1) % cn)]
        term == [n \in 1..Len(tdata) |->
                    IF method = ZIKULI_TM_SQDIFF
                    THEN (w(n) - tdata[n]) * (w(n) - tdata[n])
                    ELSE w(n) * tdata[n]]
    IN  SumTo(term, Len(tdata))

\* cv::matchTemplate swaps image and template when the template is the larger
\* one, and asserts that it is then larger or equal in both dimensions.
NeedSwap(img, templ) == img.rows < templ.rows \/ img.cols < templ.cols

CvMatchThrows(img, templ, method) ==
    \/ ~(0 <= method /\ method <= 5)
    \/ ~(CV_MAT_DEPTH(img.type) \in {CV_8U, CV_32F})
    \/ img.type # templ.type
    \/ NeedSwap(img, templ) /\ ~(img.rows <= templ.rows /\ img.cols <= templ.cols)

\* The result header and its scores (CV_32FC1, one score per offset).
CvMatchResult(img, idata, templ, tdata, method) ==
    LET I == IF NeedSwap(img, templ) THEN templ ELSE img
        id == IF NeedSwap(img, templ) THEN tdata ELSE idata
        T == IF NeedSwap(img, templ) THEN img ELSE templ
        td == IF NeedSwap(img, templ) THEN idata ELSE tdata
        rr == I.rows - T.rows + 1
        rc == I.cols - T.cols + 1
    IN  [rows |-> rr, cols |-> rc,
         data |-> [n \in 1..(rr * rc) |->
                      Score(I, id, T, td, method, (n - 1) \div rc, (n - 1) % rc)]]

zikuli_match_template(image, templ, result, method) ==
    /\ ~ub
    /\ \/ /\ (image = NULL \/ templ = NULL \/ result = NULL)
          /\ last' = [op |-> "match_template", ret |-> -1, method |-> method,
                      image |-> image, templ |-> templ, result |-> result]
          /\ UNCHANGED <<mats, mem>>
       \/ /\ image # NULL /\ templ # NULL /\ result # NULL
          /\ CvMatchThrows(mats[image], mats[templ], method)
          /\ last' = [op |-> "match_template", ret |-> -1, method |-> method,
                      image |-> image, templ |-> templ, result |-> result]
          /\ UNCHANGED <<mats, mem>>
       \/ /\ image # NULL /\ templ # NULL /\ result # NULL
          /\ ~CvMatchThrows(mats[image], mats[templ], method)
          /\ LET res == CvMatchResult(mats[image], MatData(image),
                                      mats[templ], MatData(templ), method)
             IN  /\ mats' = [mats EXCEPT ![result] =
                               Mat(res.rows, res.cols, ZIKULI_CV_32FC1, result)]
                 /\ mem' = [mem EXCEPT ![result] = res.data]
          /\ last' = [op |-> "match_template", ret |-> 0, method |-> method,
                      image |-> image, templ |-> templ, result |-> result]
    /\ UNCHANGED <<deletes, ub, mm>>

\* ------------------------------------------------------------ min max loc
RECURSIVE ScanMin(_, _, _)
RECURSIVE ScanMax(_, _, _)
\* cv::minMaxLoc's scan in storage order: a later element replaces the best
\* one only when it is strictly smaller (larger).
ScanMin(data, i, best) ==
    IF i > Len(data) THEN best
    ELSE ScanMin(data, i + 1, IF data[i] < data[best] THEN i ELSE best)

ScanMax(data, i, best) ==
    IF i > Len(data) THEN best
    ELSE ScanMax(data, i + 1, IF data[i] > data[best] THEN i ELSE best)

\* cv::Point of element n of a single-channel mat: x the column, y the row.
CvPoint(m, n) == [x |-> (n - 1) % m.cols, y |-> (n - 1) \div m.cols]

\* With a location asked for, cv::minMaxLoc takes single-channel input only.
CvMinMaxThrows(m) == CV_MAT_CN(m.type) # 1

RECURSIVE ScanMinLast(_, _, _)
RECURSIVE ScanMaxLast(_, _, _)
\* A scan that lets a later equal element replace the best one.
ScanMinLast(data, i, best) ==
    IF i > Len(data) THEN best
    ELSE ScanMinLast(data, i + 1, IF data[i] <= data[best] THEN i ELSE best)

ScanMaxLast(data, i, best) ==
    IF i > Len(data) THEN best
    ELSE ScanMaxLast(data, i + 1, IF data[i] >= data[best] THEN i ELSE best)

\* The result with the last extremum reported instead of the first.
MinMaxResultLast(m, data) ==
    LET mn == ScanMinLast(data, 1, 1)
        mx == ScanMaxLast(data, 1, 1)
    IN  [min_val |-> data[mn], max_val |-> data[mx],
         min_loc |-> [x |-> CvPoint(m, mn).x, y |-> CvPoint(m, mn).y],
         max_loc |-> [x |-> CvPoint(m, mx).x, y |-> CvPoint(m, mx).y]]

\* The result with x and y of each point exchanged.
MinMaxResultSwapped(m, data) ==
    LET mn == ScanMin(data, 1, 1)
        mx == ScanMax(data, 1, 1)
    IN  [min_val |-> data[mn], max_val |-> data[mx],
         min_loc |-> [x |-> CvPoint(m, mn).y, y |-> CvPoint(m, mn).x],
         max_loc |-> [x |-> CvPoint(m, mx).y, y |-> CvPoint(m, mx).x]]

\* The result with the minimum's and the maximum's outputs exchanged.
MinMaxResultExchanged(m, data) ==
    LET mn == ScanMin(data, 1, 1)
        mx == ScanMax(data, 1, 1)
    IN  [min_val |-> data[mx], max_val |-> data[mn],
         min_loc |-> [x |-> CvPoint(m, mx).x, y |-> CvPoint(m, mx).y],
         max_loc |-> [x |-> CvPoint(m, mn).x, y |-> CvPoint(m, mn).y]]

\* The ZikuliMinMaxResult the wrapper fills in from cv::minMaxLoc's outputs.
MinMaxResult(m, data) ==
    LET mn == ScanMin(data, 1, 1)
        mx == ScanMax(data, 1, 1)
    IN  [min_val |-> data[mn], max_val |-> data[mx],
         min_loc |-> [x |-> CvPoint(m, mn).x, y |-> CvPoint(m, mn).y],
         max_loc |-> [x |-> CvPoint(m, mx).x, y |-> CvPoint(m, mx).y]]

\* res is the caller's result struct (1) or a null pointer.
zikuli_min_max_loc(src, res) ==
    /\ ~ub
    /\ \/ /\ (src = NULL \/ res = NULL)
          /\ last' = [op |-> "min_max_loc", ret |-> -1, src |-> src]
          /\ UNCHANGED mm
       \/ /\ src # NULL /\ res # NULL
          /\ CvMinMaxThrows(mats[src])
          /\ last' = [op |-> "min_max_loc", ret |-> -1, src |-> src]
          /\ UNCHANGED mm
       \/ /\ src # NULL /\ res # NULL
          /\ ~CvMinMaxThrows(mats[src])
          /\ mm' = MinMaxResult(mats[src], MatData(src))
          /\ last' = [op |-> "min_max_loc", ret |-> 0, src |-> src]
    /\ UNCHANGED <<mats, mem, deletes, ub>>

\* ------------------------------------------------------------ lifecycle
\* Buffers are created and released; the caller keeps every handle it was
\* given, so it can release one twice.
InitLife ==
    /\ mats = [a \in 1..MaxMats |-> NoMat]
    /\ mem = [b \in 0..MaxMats |-> <<>>]
    /\ deletes = [a \in 1..MaxMats |-> 0]
    /\ ub = FALSE
    /\ last = [op |-> "init"]
    /\ mm = NoMM
    /\ fm = NoFM

\* Handles the caller holds: live ones, and released ones it did not forget.
Held == {a \in Addrs : mats[a].live \/ deletes[a] > 0}

LifeCreate ==
    \E rows \in -1..1, cols \in -1..1, type \in Types :
        zikuli_mat_create(rows, cols, type) /\ UNCHANGED fm

LifeRelease == \E p \in {NULL} \cup Held : zikuli_mat_release(p) /\ UNCHANGED fm

NextLife == LifeCreate \/ LifeRelease

SpecLife == InitLife /\ [][NextLife]_vars

\* ---------------------------------------------------- clone on ingest
MaxCallerLen == 4   \* samples of the memory the caller passes in

CallerPattern(len) == [i \in 1..len |-> (i % 3) + 1]

InitClone ==
    /\ mats = [a \in 1..1 |-> NoMat]
    /\ \E len \in 1..MaxCallerLen :
          mem = [b \in 0..1 |-> IF b = CallerBlk THEN CallerPattern(len) ELSE <<>>]
    /\ deletes = [a \in 1..1 |-> 0]
    /\ ub = FALSE
    /\ last = [op |-> "init"]
    /\ mm = NoMM
    /\ fm = NoFM

\* The samples the header over the caller's memory reaches.
HeaderLen(rows, cols, type, step) ==
    IF rows = 0 \/ cols = 0 THEN 0
    ELSE (rows - 1) * StepElems(cols, type, step) + cols * CV_MAT_CN(type)

CloneCreate ==
    \E rows \in 0..MaxRows, cols \in 0..MaxCols, type \in Types, pad \in 0..1 :
    \E step \in {0, MinStep(cols, type) + pad * ElemSize1(type)} :
        /\ HeaderLen(rows, cols, type, step) <= Len(mem[CallerBlk])
        /\ zikuli_mat_create_with_data(rows, cols, type, step)
        /\ UNCHANGED fm

CloneCallerWrite == \E i \in 1..MaxCallerLen : CallerWrite(i, 9) /\ UNCHANGED fm

CloneSetRegion ==
    \E p \in {a \in Addrs : mats[a].live}, x \in 0..1, y \in 0..1,
       width \in 1..2, height \in 1..2 :
        zikuli_mat_set_region(p, x, y, width, height, 5) /\ UNCHANGED fm

CloneRelease ==
    \E p \in {a \in Addrs : mats[a].live} : zikuli_mat_release(p) /\ UNCHANGED fm

CloneCallerFree == CallerFree /\ UNCHANGED fm

NextClone ==
    \/ CloneCreate
    \/ CloneCallerWrite
    \/ CloneCallerFree
    \/ CloneSetRegion
    \/ CloneRelease

SpecClone == InitClone /\ [][NextClone]_vars

\* ------------------------------------------------------ region writes
RegionArgs == {-1, 0, 1, 2, INT32_MAX}
RegionValues == {7, 300}

InitRegion ==
    /\ \E rows \in 1..MaxRows, cols \in 1..MaxCols, type \in Types :
          /\ mats = [a \in 1..1 |-> Mat(rows, cols, type, 1)]
          /\ mem = [b \in 0..1 |->
                      IF b = 1 THEN CallerPattern(NSamples(rows, cols, type))
                      ELSE <<>>]
    /\ deletes = [a \in 1..1 |-> 0]
    /\ ub = FALSE
    /\ last = [op |-> "init"]
    /\ mm = NoMM
    /\ fm = NoFM

RegionSet ==
    \E p \in {NULL, 1}, x \in RegionArgs, y \in RegionArgs,
       width \in RegionArgs, height \in RegionArgs, value \in RegionValues :
        zikuli_mat_set_region(p, x, y, width, height, value) /\ UNCHANGED fm

NextRegion == RegionSet

SpecRegion == InitRegion /\ [][NextRegion]_vars

\* ------------------------------------------------- scene, template, result
\* The three handles of a match: the scene, the template, the score surface.
IMAGE == 1
TEMPL == 2
RESULT == 3

Methods == {ZIKULI_TM_SQDIFF, ZIKULI_TM_CCORR}
SceneTypes == {ZIKULI_CV_8UC1, ZIKULI_CV_8UC3}

\* A scene that is dark but for the pixels (row-major numbers) in bright.
SceneData(rows, cols, type, bright) ==
    [i \in 1..NSamples(rows, cols, type) |->
        IF ((i - 1) \div CV_MAT_CN(type)) \in bright THEN 255 ELSE 0]

SparseSets(n, k) == {S \in SUBSET (0..(n - 1)) : Cardinality(S) <= k}

\* The tr x tc window of the mat m at row y, column x.
Window(m, data, x, y, tr, tc) ==
    [n \in 1..NSamples(tr, tc, m.type) |->
        LET cn == CV_MAT_CN(m.type)
        IN  data[SampleAt(m.cols, m.type, y + (n - 1) \div (tc * cn),
                          x + ((n - 1) % (tc * cn)) \div cn, (n - 1) % cn)]]

\* A scene, a template cut out of it, and an empty result mat.
SceneInit(maxRows, maxCols, types, maxBright) ==
    \E rows \in 1..maxRows, cols \in 1..maxCols, type \in types :
    \E bright \in SparseSets(rows * cols, maxBright) :
    \E y \in 0..(rows - 1), x \in 0..(cols - 1) :
    \E tr \in 1..(rows - y), tc \in 1..(cols - x) :
        LET scene == Mat(rows, cols, type, IMAGE)
            sdata == SceneData(rows, cols, type, bright)
        IN  /\ mats = <<scene, Mat(tr, tc, type, TEMPL),
                        Mat(0, 0, ZIKULI_CV_32FC1, RESULT)>>
            /\ mem = [b \in 0..3 |->
                        IF b = IMAGE THEN sdata
                        ELSE IF b = TEMPL THEN Window(scene, sdata, x, y, tr, tc)
                        ELSE <<>>]

InitMatch ==
    /\ SceneInit(SceneRows, SceneCols, SceneTypes, MaxBright)
    /\ deletes = [a \in 1..3 |-> 0]
    /\ ub = FALSE
    /\ last = [op |-> "init"]
    /\ mm = NoMM
    /\ fm = NoFM

MatchCall ==
    \E image \in {NULL, IMAGE}, templ \in {NULL, TEMPL}, result \in {NULL, RESULT},
       method \in Methods :
        zikuli_match_template(image, templ, result, method) /\ UNCHANGED fm

MinMaxCall ==
    \E src \in {NULL} \cup {a \in Addrs : MatData(a) # <<>>}, res \in {NULL, 1} :
        zikuli_min_max_loc(src, res) /\ UNCHANGED fm

MatchScene ==
    \E method \in Methods :
        zikuli_match_template(IMAGE, TEMPL, RESULT, method) /\ UNCHANGED fm

MinMaxMat ==
    \E src \in {a \in {IMAGE, RESULT} : MatData(a) # <<>>} :
        zikuli_min_max_loc(src, 1) /\ UNCHANGED fm

NextMatch == MatchScene \/ MinMaxMat

SpecMatch == InitMatch /\ [][NextMatch]_vars

\* Any image against any template: flat buffers of every type and size, the
\* template up to one row and one column larger than the largest image.
InitPre ==
    /\ \E ir \in 1..MaxRows, ic \in 1..MaxCols, it \in Types :
       \E tr \in 1..(MaxRows + 1), tc \in 1..(MaxCols + 1), tt \in Types :
          /\ mats = <<Mat(ir, ic, it, IMAGE), Mat(tr, tc, tt, TEMPL),
                      Mat(0, 0, ZIKULI_CV_32FC1, RESULT)>>
          /\ mem = [b \in 0..3 |->
                      IF b = IMAGE THEN [i \in 1..NSamples(ir, ic, it) |-> 1]
                      ELSE IF b = TEMPL THEN [i \in 1..NSamples(tr, tc, tt) |-> 1]
                      ELSE <<>>]
    /\ deletes = [a \in 1..3 |-> 0]
    /\ ub = FALSE
    /\ last = [op |-> "init"]
    /\ mm = NoMM
    /\ fm = NoFM

NextPre == MatchCall \/ MinMaxCall

SpecPre == InitPre /\ [][NextPre]_vars

\* ------------------------------------------------------------ findMatches
\* The suppressor loop over the three primitives: SCANNING (minMaxLoc on the
\* working surface), ACCEPTED (emit, then setRegion the suppression rectangle
\* to the polarity's worst value), DONE.  A primitive's failure aborts the
\* loop: DONE with the failure outcome and no matches.
Minimize(method) == method = ZIKULI_TM_SQDIFF

Worst(method) == IF Minimize(method) THEN PosInf ELSE NegInf

Passes(method, score, threshold) ==
    IF Minimize(method) THEN score <= threshold ELSE score >= threshold

Candidate(method, r) ==
    IF Minimize(method)
    THEN [x |-> r.min_loc.x, y |-> r.min_loc.y, score |-> r.min_val]
    ELSE [x |-> r.max_loc.x, y |-> r.max_loc.y, score |-> r.max_val]

Min2(a, b) == IF a < b THEN a ELSE b
Max2(a, b) == IF a > b THEN a ELSE b

\* The template-sized window at the location, anchored there or centred on
\* it, clamped to the surface; ux, uy is its corner before clamping.
SuppressRect(anchor, loc, tw, th, cols, rows) ==
    LET ux == IF anchor = "anchored" THEN loc.x ELSE loc.x - tw \div 2
        uy == IF anchor = "anchored" THEN loc.y ELSE loc.y - th \div 2
        x0 == Max2(0, ux)
        y0 == Max2(0, uy)
    IN  [x |-> x0, y |-> y0,
         width |-> Min2(cols, ux + tw) - x0,
         height |-> Min2(rows, uy + th) - y0,
         clamped |-> (ux < 0 \/ uy < 0 \/ ux + tw > cols \/ uy + th > rows)]

Thresholds == {NegInf, 65025, PosInf}

\* Flat scene and template of any sizes and of equal or different type: the
\* pairs matchTemplate rejects, and the ones it takes with the roles swapped.
FlatInit ==
    \E ir \in {FindRows}, ic \in {1, FindCols} :
    \E tr \in 1..(FindRows + 1), tc \in 1..(FindCols + 1),
       tt \in {ZIKULI_CV_8UC1, ZIKULI_CV_8UC3} :
        /\ mats = <<Mat(ir, ic, ZIKULI_CV_8UC1, IMAGE), Mat(tr, tc, tt, TEMPL),
                    Mat(0, 0, ZIKULI_CV_32FC1, RESULT)>>
        /\ mem = [b \in 0..3 |->
                    IF b = IMAGE THEN [i \in 1..NSamples(ir, ic, ZIKULI_CV_8UC1) |-> 1]
                    ELSE IF b = TEMPL THEN [i \in 1..NSamples(tr, tc, tt) |-> 1]
                    ELSE <<>>]

Aborted(f) == [f EXCEPT !.pc = "DONE", !.outcome = "failure",
                        !.matches = <<>>, !.rects = <<>>]

InitFind ==
    /\ SceneInit(FindRows, FindCols, {ZIKULI_CV_8UC1}, 1) \/ FlatInit
    /\ deletes = [a \in 1..3 |-> 0]
    /\ ub = FALSE
    /\ last = [op |-> "init"]
    /\ mm = NoMM
    /\ \E method \in Methods, threshold \in Thresholds, maxMatches \in 0..MaxN,
          anchor \in {"anchored", "centered"} :
          fm = [pc |-> "IDLE", outcome |-> "none", method |-> method,
                threshold |-> threshold, maxMatches |-> maxMatches,
                anchor |-> anchor, matches |-> <<>>, rects |-> <<>>,
                cand |-> [x |-> 0, y |-> 0, score |-> 0]]

FindStart ==
    /\ fm.pc = "IDLE"
    /\ zikuli_match_template(IMAGE, TEMPL, RESULT, fm.method)
    /\ fm' = IF last'.ret = 0 THEN [fm EXCEPT !.pc = "SCANNING"] ELSE Aborted(fm)

FindScan ==
    /\ fm.pc = "SCANNING"
    /\ IF Len(fm.matches) >= fm.maxMatches
       THEN /\ fm' = [fm EXCEPT !.pc = "DONE", !.outcome = "success"]
            /\ UNCHANGED <<mats, mem, deletes, ub, last, mm>>
       ELSE /\ zikuli_min_max_loc(RESULT, 1)
            /\ LET cand == Candidate(fm.method, mm')
               IN  fm' = IF last'.ret # 0
                         THEN Aborted(fm)
                         ELSE IF cand.score = Worst(fm.method)
                         THEN [fm EXCEPT !.pc = "DONE", !.outcome = "success"]
                         ELSE IF Passes(fm.method, cand.score, fm.threshold)
                         THEN [fm EXCEPT !.pc = "ACCEPTED", !.cand = cand]
                         ELSE [fm EXCEPT !.pc = "DONE", !.outcome = "success"]

FindAccept ==
    /\ fm.pc = "ACCEPTED"
    /\ LET rect == SuppressRect(fm.anchor, fm.cand, mats[TEMPL].cols,
                                mats[TEMPL].rows, mats[RESULT].cols,
                                mats[RESULT].rows)
       IN  /\ zikuli_mat_set_region(RESULT, rect.x, rect.y, rect.width,
                                    rect.height, Worst(fm.method))
           /\ fm' = IF last'.ret # 0
                    THEN Aborted(fm)
                    ELSE [fm EXCEPT !.pc = "SCANNING",
                                    !.matches = Append(@, fm.cand),
                                    !.rects = Append(@, rect)]

NextFind == FindStart \/ FindScan \/ FindAccept

SpecFind == InitFind /\ [][NextFind]_vars

\* The loop is one synchronous call: it keeps running until it returns.
FairSpecFind == SpecFind /\ WF_vars(NextFind)

\* ===================================================================== claims

\* C10: a buffer returned by createBuffer is zero-initialised and reports the
\* requested dimensions: right after a successful create every sample is 0,
\* rows is the requested rows and cols the requested cols.
C10_ZeroInitialized ==
    (last.op = "create" /\ last.ret # NULL) =>
        /\ \A i \in 1..Len(MatData(last.ret)) : MatData(last.ret)[i] = 0
        /\ zikuli_mat_rows(last.ret) = last.rows
        /\ zikuli_mat_cols(last.ret) = last.cols

\* C8: release is idempotent: no object is ever deleted twice and releasing a
\* null or already-released handle executes nothing undefined.
C8_ReleaseOnce == ~ub /\ \A a \in Addrs : deletes[a] <= 1

\* The region is invalid for the mat m, the sums taken in the integers.
InvalidRegion(m, x, y, width, height) ==
    \/ x < 0 \/ y < 0 \/ width <= 0 \/ height <= 0
    \/ x > m.cols - width
    \/ y > m.rows - height

\* C5: setRegion with x < 0, y < 0, width <= 0, height <= 0, x+width > cols or
\* y+height > rows (mathematical sums) returns -1 and changes no sample.
C5_RejectsInvalid ==
    [][\A x \in RegionArgs, y \in RegionArgs, width \in RegionArgs,
          height \in RegionArgs, value \in RegionValues :
          (/\ zikuli_mat_set_region(1, x, y, width, height, value)
           /\ InvalidRegion(mats[1], x, y, width, height))
          => (last'.returned /\ last'.ret = -1 /\ mem' = mem)]_vars

\* C6: after a successful setRegion every sample of every channel of every
\* pixel of the rectangle equals the value (a value the element type holds).
C6_AllChannelsSet ==
    [][\A x \in RegionArgs, y \in RegionArgs, width \in RegionArgs,
          height \in RegionArgs, value \in RegionValues :
          (/\ zikuli_mat_set_region(1, x, y, width, height, value)
           /\ last'.returned /\ last'.ret = 0
           /\ Saturate(mats[1].type, value) = value)
          => \A c \in x..(x + width - 1), r \in y..(y + height - 1),
                k \in 0..(CV_MAT_CN(mats[1].type) - 1) :
                mem'[1][SampleAt(mats[1].cols, mats[1].type, r, c, k)] = value]_vars

\* C9: a buffer made by createBufferFromData does not alias the caller's
\* memory: a caller's write or free leaves every live buffer's samples as
\* they were, and a setRegion on a buffer leaves the caller's memory as it was.
C9_NoAlias ==
    [][/\ (last'.op \in {"caller_write", "caller_free"}) =>
             \A p \in Addrs : (mats[p].live => MatData(p)' = MatData(p))
       /\ (last'.op = "set_region") => mem'[CallerBlk] = mem[CallerBlk]]_vars

\* A cloned buffer is live and holds samples while the caller has since
\* overwritten or freed the memory it was cloned from.
C9_Witness ==
    /\ last.op \in {"caller_write", "caller_free"}
    /\ \E p \in Addrs : mats[p].live /\ MatData(p) # <<>>
    /\ mem[CallerBlk] # CallerPattern(Len(mem[CallerBlk]))

\* A precondition of matchTemplate is violated by the call recorded in last.
PreconditionViolated ==
    \/ last.image = NULL \/ last.templ = NULL \/ last.result = NULL
    \/ mats[TEMPL].rows > mats[IMAGE].rows
    \/ mats[TEMPL].cols > mats[IMAGE].cols
    \/ mats[TEMPL].type # mats[IMAGE].type

\* C7: matchTemplate returns -1 whenever a handle is null, the template has
\* more rows or more columns than the scene, or the two differ in type.
C7_FailsOnViolation ==
    (last.op = "match_template" /\ PreconditionViolated) => last.ret = -1

\* The offsets (x = column, y = row) at which the scene's window is the template.
ExactOffsets ==
    {o \in [x : 0..(mats[IMAGE].cols - mats[TEMPL].cols),
            y : 0..(mats[IMAGE].rows - mats[TEMPL].rows)] :
        Window(mats[IMAGE], MatData(IMAGE), o.x, o.y,
               mats[TEMPL].rows, mats[TEMPL].cols) = MatData(TEMPL)}

\* minMaxLoc has just succeeded on the surface that matchTemplate(SQDIFF)
\* made of the scene and the template.
SqdiffLocated ==
    /\ last.op = "min_max_loc" /\ last.ret = 0 /\ last.src = RESULT
    /\ mats[RESULT].rows = mats[IMAGE].rows - mats[TEMPL].rows + 1
    /\ mats[RESULT].cols = mats[IMAGE].cols - mats[TEMPL].cols + 1
    /\ MatData(RESULT) = CvMatchResult(mats[IMAGE], MatData(IMAGE), mats[TEMPL],
                                       MatData(TEMPL), ZIKULI_TM_SQDIFF).data

C4_FirstInRowMajor ==
    (last.op = "min_max_loc" /\ last.ret = 0) =>
        LET m == mats[last.src]
            d == MatData(last.src)
            at(pt) == pt.y * m.cols + pt.x + 1
        IN  /\ mm.min_loc.x \in 0..(m.cols - 1) /\ mm.min_loc.y \in 0..(m.rows - 1)
            /\ mm.max_loc.x \in 0..(m.cols - 1) /\ mm.max_loc.y \in 0..(m.rows - 1)
            /\ d[at(mm.min_loc)] = mm.min_val
            /\ d[at(mm.max_loc)] = mm.max_val
            /\ \A n \in 1..Len(d) : mm.min_val <= d[n] /\ d[n] <= mm.max_val
            /\ \A n \in 1..(at(mm.min_loc) - 1) : d[n] > mm.min_val
            /\ \A n \in 1..(at(mm.max_loc) - 1) : d[n] < mm.max_val

\* Two cells share the maximum and two the minimum on a surface of two rows
\* and two columns; the maximum is first met in the second row, and again in
\* the cell after it.
C4_Witness ==
    /\ last.op = "min_max_loc" /\ last.ret = 0
    /\ LET m == mats[last.src]
           d == MatData(last.src)
       IN  /\ m.rows = 2 /\ m.cols = 2
           /\ Cardinality({n \in 1..Len(d) : d[n] = mm.max_val}) = 2
           /\ Cardinality({n \in 1..Len(d) : d[n] = mm.min_val}) = 2
           /\ mm.max_loc.x = 0 /\ mm.max_loc.y = 1
           /\ mm.min_loc.x = 0 /\ mm.min_loc.y = 0
           /\ d[4] = mm.max_val

\* Every cell of the working surface holds the polarity's worst value.
AllSuppressed == \A n \in 1..Len(MatData(RESULT)) : MatData(RESULT)[n] = Worst(fm.method)

\* Some cell of the working surface passes the threshold and is not suppressed.
SomeCandidateLeft ==
    \E n \in 1..Len(MatData(RESULT)) :
        /\ MatData(RESULT)[n] # Worst(fm.method)
        /\ Passes(fm.method, MatData(RESULT)[n], fm.threshold)

\* C2: findMatches always reaches DONE, never holds more than maxMatches
\* matches, and is DONE only when the count has reached the cap, or the whole
\* surface is suppressed, or no remaining candidate passes the threshold (or
\* a primitive failed and the search was aborted with no matches).
C2_TerminatesWithinCap ==
    /\ <>(fm.pc = "DONE")
    /\ [](Len(fm.matches) <= fm.maxMatches)
    /\ []((fm.pc = "DONE" /\ fm.outcome = "failure") =>
            (last.ret = -1 /\ fm.matches = <<>>))
    /\ []((fm.pc = "DONE" /\ fm.outcome = "success") =>
            \/ Len(fm.matches) = fm.maxMatches
            \/ AllSuppressed
            \/ ~SomeCandidateLeft)

\* The loop has accepted up to the cap and stopped with candidates left.
C2_Witness ==
    /\ fm.pc = "DONE" /\ fm.outcome = "success"
    /\ Len(fm.matches) = fm.maxMatches
    /\ fm.maxMatches > 1
    /\ SomeCandidateLeft

RectsOverlap(a, b) ==
    /\ a.x < b.x + b.width /\ b.x < a.x + a.width
    /\ a.y < b.y + b.height /\ b.y < a.y + a.height

InRect(loc, r) ==
    /\ r.x <= loc.x /\ loc.x < r.x + r.width
    /\ r.y <= loc.y /\ loc.y < r.y + r.height

\* C3 as claimed: the suppression rectangles of two accepted matches overlap
\* only when one of them was clamped at the surface boundary.
C3_RectsDisjoint ==
    \A i \in 1..Len(fm.rects), j \in 1..Len(fm.rects) :
        (i # j /\ RectsOverlap(fm.rects[i], fm.rects[j]))
            => (fm.rects[i].clamped \/ fm.rects[j].clamped)

\* C3 amended: no accepted match lies inside the suppression rectangle of a
\* match accepted before it (the rectangles themselves may overlap).
C3_LocationsOutsideEarlierRects ==
    /\ \A i \in 1..Len(fm.rects), j \in 1..Len(fm.matches) :
          i < j => ~InRect(fm.matches[j], fm.rects[i])
    /\ (fm.pc = "ACCEPTED") =>
          \A i \in 1..Len(fm.rects) : ~InRect(fm.cand, fm.rects[i])

\* Two matches were accepted and their unclamped rectangles overlap.
C3_Witness ==
    /\ Len(fm.rects) = 2
    /\ RectsOverlap(fm.rects[1], fm.rects[2])
    /\ ~fm.rects[1].clamped /\ ~fm.rects[2].clamped

====
